---- MODULE Spec2Model ----
(***************************************************************************)
(* Model of the Alias chat game server: the team roster (TeamsService),    *)
(* the room directory it is seeded into, and the start-up initializer      *)
(* (InitializationService).  The document store executes one query at a    *)
(* time; a handler is suspended at every await, so a handler is one action *)
(* per store query it awaits, with the synchronous code that follows the   *)
(* query folded into that action.                                         *)
(***************************************************************************)
EXTENDS Integers, Sequences, FiniteSets, TLC

(* ------------------------------- bounds -------------------------------- *)
\* user ids a client may pass
NumUsers == 4
\* client calls started in one behaviour of Spec (calls may interleave)
MaxCalls == 4
\* client calls started in one behaviour of SpecSeq (one call at a time)
MaxSeqCalls == 7
\* calls that can be in flight at once
NumProcs == 2
\* client calls started in one behaviour of SpecMembers
MaxMemberCalls == 3
\* client calls started in one behaviour of SpecReader
MaxReaderCalls == 6

(* -------------------------- program constants -------------------------- *)
MAX_USERS_IN_TEAM == 3
\* turnTime of both default rooms
DefaultTurnTime == 60

Users == 1..NumUsers
Procs == 1..NumProcs
\* an unset describer / teamLeader (undefined or null: falsy in the code)
NoUser == 0
\* no id (a field of a call record that the operation does not use)
NoId == 0

\* initialRooms of createDefaultRooms
initialRooms ==
    << [name |-> "Room1", teams |-> <<>>, turnTime |-> DefaultTurnTime],
       [name |-> "Room2", teams |-> <<>>, turnTime |-> DefaultTurnTime] >>

\* the names of the teams array of addTeamsToRoom
defaultTeamNames == << "Team1", "Team2", "Team3" >>

\* ids a client passes: the store hands out room ids 1, 2 and team ids 1..6
\* during start-up; room 3 and team 7 are ids of no document
RoomArgs == {1, 2, 3}
TeamArgs == {1, 7}
\* two teams of room 1, for calls that change membership only
MemberTeamArgs == {1, 2}

VARIABLES
    rooms,      \* room collection: id -> room document
    teams,      \* team collection: id -> team document
    boot,       \* position and locals of createDefaultRooms
    calls,      \* per in-flight client call: position and locals
    last,       \* outcome of the client call that completed most recently
    ncalls,     \* client calls started so far
    seen,       \* user ids 1..seen have been passed by clients so far
    rot,        \* per team: completed rotations in a row since describer unset
    rooms0      \* the room collection as the process found it at its start

vars == << rooms, teams, boot, calls, last, ncalls, seen, rot, rooms0 >>

(* ------------------------------ helpers -------------------------------- *)
\* Array.prototype.indexOf: 0-based index of the first occurrence, else -1
RECURSIVE IndexFrom(_, _, _)
IndexFrom(s, x, i) ==
    IF i > Len(s) THEN -1
    ELSE IF s[i] = x THEN i - 1
    ELSE IndexFrom(s, x, i + 1)

IndexOf(s, x) == IndexFrom(s, x, 1)

\* includes on a document array: ids are compared by value
Includes(s, x) == IndexOf(s, x) # -1

\* players[i] for a 0-based index i
At(s, i) == s[i + 1]

\* $pull: every occurrence of x removed, the rest in order
RECURSIVE Pull(_, _)
Pull(s, x) ==
    IF s = <<>> THEN <<>>
    ELSE IF Head(s) = x THEN Pull(Tail(s), x)
    ELSE <<Head(s)>> \o Pull(Tail(s), x)

\* ids of a set as a sequence in ascending (insertion) order
RECURSIVE Sorted(_)
Sorted(S) ==
    IF S = {} THEN <<>>
    ELSE LET m == CHOOSE x \in S : \A y \in S : x <= y
         IN  <<m>> \o Sorted(S \ {m})

\* a fresh ObjectId for a collection
NewId(coll) == Cardinality(DOMAIN coll) + 1

IdleCall == [pc |-> "idle", op |-> "none", roomId |-> NoId, teamId |-> NoId,
             userId |-> NoUser, players |-> <<>>,
             nextDescriber |-> NoUser, nextLeader |-> NoUser]

NoLast == [op |-> "none", roomId |-> NoId, teamId |-> NoId, userId |-> NoUser,
           result |-> "none", ret |-> <<>>]

AllIdle == \A p \in Procs : calls[p].pc = "idle"

(* ------------------------------- Init ---------------------------------- *)
\* the process starts on an empty store, before onModuleInit has run
Init ==
    /\ rooms = << >>
    /\ teams = << >>
    /\ boot = [pc |-> "deleteAll", i |-> 1, j |-> 1, roomId |-> NoId,
               teamIds |-> <<>>]
    /\ calls = [p \in Procs |-> IdleCall]
    /\ last = NoLast
    /\ ncalls = 0
    /\ seen = 0
    /\ rot = << >>
    /\ rooms0 = rooms

\* ids and names of rooms a previous run of the process may have left in the
\* store
OldRoomIds == {8, 9}
OldRoomNames == {"Room1", "Room2", "Lobby"}

\* the room collections a previous run may have left: any rooms under the
\* old ids, with any of the names
OldStores ==
    LET docs == { [_id |-> i, name |-> n, teams |-> <<>>,
                   turnTime |-> DefaultTurnTime] :
                  i \in OldRoomIds, n \in OldRoomNames }
    IN  UNION { { f \in [S -> docs] : \A r \in S : f[r]._id = r } :
                S \in SUBSET OldRoomIds }

\* the process starts on a store that holds rooms of a previous run; the
\* team collection is left empty (createDefaultRooms never reads it)
InitAny ==
    /\ rooms \in OldStores
    /\ teams = << >>
    /\ boot = [pc |-> "deleteAll", i |-> 1, j |-> 1, roomId |-> NoId,
               teamIds |-> <<>>]
    /\ calls = [p \in Procs |-> IdleCall]
    /\ last = NoLast
    /\ ncalls = 0
    /\ seen = 0
    /\ rot = << >>
    /\ rooms0 = rooms

(* ---------------- RoomsService (room directory) ------------------------ *)
\* deleteAllRooms: every room document removed
RoomsDeleteAll == << >>

\* create(dto): a room document with a fresh id
RoomsCreate(coll, dto) ==
    LET id == NewId(coll)
    IN  [r \in DOMAIN coll \cup {id} |->
            IF r = id
            THEN [_id |-> id, name |-> dto.name, teams |-> dto.teams,
                  turnTime |-> dto.turnTime]
            ELSE coll[r]]

\* updateTeam(roomId, teamIds): the room's team-id list replaced
RoomsUpdateTeam(coll, roomId, teamIds) ==
    [r \in DOMAIN coll |->
        IF r = roomId THEN [coll[r] EXCEPT !.teams = teamIds] ELSE coll[r]]

(* ---------------- TeamsService.create ---------------------------------- *)
\* new teamModel({...createTeamDto, roomId}).save()
TeamsCreate(coll, roomId, name) ==
    LET id == NewId(coll)
    IN  [t \in DOMAIN coll \cup {id} |->
            IF t = id
            THEN [_id |-> id, roomId |-> roomId, name |-> name,
                  players |-> <<>>, describer |-> NoUser,
                  teamLeader |-> NoUser]
            ELSE coll[t]]

(* ---------------- InitializationService -------------------------------- *)
\* the loop over initialRooms left after its first iteration
NextRoomStop(b) == [b EXCEPT !.i = b.i + 1, !.pc = "done"]

\* the position after one iteration of the for loop over initialRooms
NextRoom(b) ==
    [b EXCEPT !.i = b.i + 1,
              !.pc = IF b.i + 1 > Len(initialRooms) THEN "done" ELSE "findAll"]

\* createDefaultRooms, line 43: await deleteAllRooms()
BootDeleteAll ==
    /\ boot.pc = "deleteAll"
    /\ rooms' = RoomsDeleteAll
    /\ boot' = [boot EXCEPT !.pc = "findAll", !.i = 1]
    /\ UNCHANGED << teams, calls, last, ncalls, seen, rot, rooms0 >>

\* the existence check with the name comparison dropped: any room matches
RoomExistAny(existingRooms, name) == \E r \in DOMAIN existingRooms : TRUE

\* lines 51-53: existingRooms.some(r => r.name === room.name)
RoomExist(existingRooms, name) ==
    \E r \in DOMAIN existingRooms : existingRooms[r].name = name

\* createDefaultRooms, lines 50-55: await findAll(), roomExist
BootFindAll ==
    /\ boot.pc = "findAll"
    /\ LET roomExist == RoomExist(rooms, initialRooms[boot.i].name)
       IN  boot' = IF ~roomExist THEN [boot EXCEPT !.pc = "createRoom"]
                   ELSE NextRoom(boot)
    /\ UNCHANGED << rooms, teams, calls, last, ncalls, seen, rot, rooms0 >>

\* createDefaultRooms, line 56: await create(room); addTeamsToRoom begins
BootCreateRoom ==
    /\ boot.pc = "createRoom"
    /\ rooms' = RoomsCreate(rooms, initialRooms[boot.i])
    /\ boot' = [boot EXCEPT !.pc = "createTeam", !.roomId = NewId(rooms),
                            !.j = 1, !.teamIds = <<>>]
    /\ UNCHANGED << teams, calls, last, ncalls, seen, rot, rooms0 >>

\* addTeamsToRoom, lines 76-79: await teamsService.create; teamIds.push
BootCreateTeam ==
    /\ boot.pc = "createTeam"
    /\ teams' = TeamsCreate(teams, boot.roomId, defaultTeamNames[boot.j])
    /\ rot' = [t \in DOMAIN teams \cup {NewId(teams)} |->
                  IF t \in DOMAIN teams THEN rot[t] ELSE 0]
    /\ boot' = [boot EXCEPT !.teamIds = Append(boot.teamIds, NewId(teams)),
                            !.j = boot.j + 1,
                            !.pc = IF boot.j + 1 > Len(defaultTeamNames)
                                   THEN "updateTeam" ELSE "createTeam"]
    /\ UNCHANGED << rooms, calls, last, ncalls, seen, rooms0 >>

\* addTeamsToRoom, line 81: await updateTeam(roomId, teamIds); next room
BootUpdateTeam ==
    /\ boot.pc = "updateTeam"
    /\ rooms' = RoomsUpdateTeam(rooms, boot.roomId, boot.teamIds)
    /\ boot' = NextRoom(boot)
    /\ UNCHANGED << teams, calls, last, ncalls, seen, rot, rooms0 >>

(* ---------------- TeamsService: shared pieces -------------------------- *)
\* the filter without the room: { _id: teamId }
MatchAnyRoom(roomId, teamId) == teamId \in DOMAIN teams

\* the filter { _id: teamId, roomId } matches a document
Match(roomId, teamId) ==
    teamId \in DOMAIN teams /\ teams[teamId].roomId = roomId

\* a client call may start: start-up has finished and slot p is the first
\* free one
Start(p) ==
    /\ boot.pc = "done"
    /\ calls[p].pc = "idle"
    /\ \A q \in Procs : q < p => calls[q].pc # "idle"

\* user ids are opaque and compared for equality only, so clients take them
\* into use in increasing order: userId is one already passed or the next one
InOrder(userId) == userId <= seen + 1

\* the user ids passed so far, userId included
Used(userId) == IF userId > seen THEN userId ELSE seen

\* the call in slot p returns (or throws) and its outcome is recorded
Complete(p, op, roomId, teamId, userId, result, ret) ==
    /\ calls' = [calls EXCEPT ![p] = IdleCall]
    /\ last' = [op |-> op, roomId |-> roomId, teamId |-> teamId,
                userId |-> userId, result |-> result, ret |-> ret]

\* a defineDescriberAndLeader call on team teamId is between its read and
\* its last write
RotationInFlight(teamId) ==
    \E q \in Procs :
        /\ calls[q].pc \in {"setDescriber", "setTeamLeader"}
        /\ calls[q].teamId = teamId

\* rotations completed in a row on a team, as of a change of its player list:
\* the count restarts when the describer is unset and no rotation has read
\* the old list
RotAfterListChange(doc) ==
    IF doc.describer = NoUser /\ ~RotationInFlight(doc._id) THEN 0 ELSE -1

\* rotations completed in a row on a team, as of one more completed rotation
RotAfterRotation(doc, k) ==
    IF doc.describer = NoUser THEN 0
    ELSE IF k >= 0 THEN k + 1 ELSE -1

(* ---------------- TeamsService.addPlayerToTeam ------------------------- *)
\* the capacity check off by one: > instead of >=
TeamIsFullOffByOne(players) == Len(players) > MAX_USERS_IN_TEAM

\* line 58: team.players.length >= this.MAX_USERS_IN_TEAM
TeamIsFull(players) == Len(players) >= MAX_USERS_IN_TEAM

\* the membership test looking at the first player only
AlreadyInTeamFirstOnly(players, userId) ==
    Len(players) > 0 /\ players[1] = userId

\* line 62: team.players.includes(userId)
AlreadyInTeam(players, userId) == Includes(players, userId)

\* the player put at the front (unshift) instead of the end
PushPlayerFront(players, userId) == <<userId>> \o players

\* line 63: team.players.push(userId)
PushPlayer(players, userId) == Append(players, userId)

\* lines 53-64: await findTeamById, the three checks, players.push, and the
\* update issued
AddPlayerFind(p, userId, teamId) ==
    /\ Start(p)
    /\ ncalls' = ncalls + 1
    /\ seen' = Used(userId)
    /\ IF teamId \notin DOMAIN teams
       THEN Complete(p, "addPlayerToTeam", NoId, teamId, userId, "NotFound", <<>>)
       ELSE LET team == teams[teamId]
            IN  IF TeamIsFull(team.players)
                THEN Complete(p, "addPlayerToTeam", NoId, teamId, userId,
                              "TeamFull", <<>>)
                ELSE IF ~AlreadyInTeam(team.players, userId)
                THEN /\ calls' = [calls EXCEPT ![p] =
                            [IdleCall EXCEPT !.pc = "addUpdate",
                                !.op = "addPlayerToTeam",
                                !.roomId = team.roomId,
                                !.teamId = teamId,
                                !.userId = userId,
                                !.players = PushPlayer(team.players, userId)]]
                     /\ last' = last
                ELSE Complete(p, "addPlayerToTeam", NoId, teamId, userId,
                              "Duplicate", <<>>)
    /\ UNCHANGED << rooms, teams, boot, rot, rooms0 >>

\* the update as { $push: { players: userId } } on the stored list
AddPlayerUpdatePush(p) ==
    /\ calls[p].pc = "addUpdate"
    /\ LET c == calls[p]
       IN  /\ teams' = [t \in DOMAIN teams |->
                          IF t = c.teamId
                          THEN [teams[t] EXCEPT
                                   !.players = Append(@, c.userId)]
                          ELSE teams[t]]
           /\ rot' = [t \in DOMAIN rot |->
                          IF t = c.teamId /\ teams'[t].players # teams[t].players
                          THEN RotAfterListChange(teams'[t])
                          ELSE rot[t]]
           /\ Complete(p, "addPlayerToTeam", NoId, c.teamId, c.userId, "ok",
                       << [roomId |-> c.roomId, teamId |-> c.teamId] >>)
    /\ UNCHANGED << rooms, boot, ncalls, seen, rooms0 >>

\* update, lines 82-88: findByIdAndUpdate(teamId, { players }); then
\* addPlayerToTeam, lines 69-73: the confirmation
AddPlayerUpdate(p) ==
    /\ calls[p].pc = "addUpdate"
    /\ LET c == calls[p]
       IN  /\ teams' = [t \in DOMAIN teams |->
                          IF t = c.teamId
                          THEN [teams[t] EXCEPT !.players = c.players]
                          ELSE teams[t]]
           /\ rot' = [t \in DOMAIN rot |->
                          IF t = c.teamId /\ teams'[t].players # teams[t].players
                          THEN RotAfterListChange(teams'[t])
                          ELSE rot[t]]
           /\ Complete(p, "addPlayerToTeam", NoId, c.teamId, c.userId, "ok",
                       << [roomId |-> c.roomId, teamId |-> c.teamId] >>)
    /\ UNCHANGED << rooms, boot, ncalls, seen, rooms0 >>

(* ---------------- TeamsService.removePlayer ---------------------------- *)
\* the last player dropped (pop) when the user is a member
PullPlayerPop(players, userId) ==
    IF Includes(players, userId) THEN SubSeq(players, 1, Len(players) - 1)
    ELSE players

\* line 124: { $pull: { players: userId } }
PullPlayer(players, userId) == Pull(players, userId)

\* lines 116-134: one findOneAndUpdate with $pull, new: true
RemovePlayer(p, roomId, teamId, userId) ==
    /\ Start(p)
    /\ ncalls' = ncalls + 1
    /\ seen' = Used(userId)
    /\ IF Match(roomId, teamId)
       THEN /\ teams' = [teams EXCEPT ![teamId].players = PullPlayer(@, userId)]
            /\ rot' = [rot EXCEPT ![teamId] =
                          IF teams'[teamId].players # teams[teamId].players
                          THEN RotAfterListChange(teams'[teamId]) ELSE @]
            /\ Complete(p, "removePlayer", roomId, teamId, userId, "ok",
                        << teams'[teamId] >>)
       ELSE /\ UNCHANGED << teams, rot >>
            /\ Complete(p, "removePlayer", roomId, teamId, userId,
                        "NotFound", <<>>)
    /\ UNCHANGED << rooms, boot, rooms0 >>

(* ---------------- TeamsService.remove ---------------------------------- *)
\* lines 102-109: deleteOne({ _id: teamId, roomId }); deletedCount === 0
\* throws NotFound
Remove(p, roomId, teamId) ==
    /\ Start(p)
    /\ ncalls' = ncalls + 1
    /\ seen' = seen
    /\ IF Match(roomId, teamId)
       THEN /\ teams' = [t \in DOMAIN teams \ {teamId} |-> teams[t]]
            /\ Complete(p, "remove", roomId, teamId, NoUser, "ok", <<>>)
       ELSE /\ UNCHANGED teams
            /\ Complete(p, "remove", roomId, teamId, NoUser, "NotFound", <<>>)
    /\ UNCHANGED << rooms, boot, rot, rooms0 >>

(* ---------------- TeamsService.defineDescriberAndLeader ---------------- *)
\* a describer that is not in the list counted as the first player
CurrentDescriberIndexClamped(players, describer) ==
    IF describer = NoUser THEN -1
    ELSE IF Includes(players, describer) THEN IndexOf(players, describer)
    ELSE 0

\* line 158: describer ? players.indexOf(describer) : -1
CurrentDescriberIndex(players, describer) ==
    IF describer # NoUser THEN IndexOf(players, describer) ELSE -1

\* line 161: (currentDescriberIndex + 1) % players.length
NextDescriberIndex(players, describer) ==
    (CurrentDescriberIndex(players, describer) + 1) % Len(players)

\* the leader taken at the describer's own index
NextLeaderIndexSame(players, describer) ==
    NextDescriberIndex(players, describer)

\* line 165: (nextDescriberIndex + 1) % players.length
NextLeaderIndex(players, describer) ==
    (NextDescriberIndex(players, describer) + 1) % Len(players)

\* lines 162, 166: players[index]; with no players the index is NaN and the
\* element undefined
NextDescriber(players, describer) ==
    IF Len(players) = 0 THEN NoUser
    ELSE At(players, NextDescriberIndex(players, describer))

NextLeader(players, describer) ==
    IF Len(players) = 0 THEN NoUser
    ELSE At(players, NextLeaderIndex(players, describer))

\* what an update { field: userId } stores: a user id as given; undefined is
\* dropped from the update (field kept) or stored as null, by driver version
Stored(old, userId) == IF userId = NoUser THEN {old, NoUser} ELSE {userId}

\* lines 149-168: await findOne, next describer and leader computed,
\* setDescriber issued
DefineFind(p, roomId, teamId) ==
    /\ Start(p)
    /\ ncalls' = ncalls + 1
    /\ seen' = seen
    /\ IF ~Match(roomId, teamId)
       THEN Complete(p, "defineDescriberAndLeader", roomId, teamId, NoUser,
                     "NotFound", <<>>)
       ELSE LET team == teams[teamId]
            IN  /\ calls' = [calls EXCEPT ![p] =
                      [IdleCall EXCEPT !.pc = "setDescriber",
                          !.op = "defineDescriberAndLeader",
                          !.roomId = roomId,
                          !.teamId = teamId,
                          !.nextDescriber =
                              NextDescriber(team.players, team.describer),
                          !.nextLeader =
                              NextLeader(team.players, team.describer)]]
                /\ last' = last
    /\ UNCHANGED << rooms, teams, boot, rot, rooms0 >>

\* describer and teamLeader written by the one update
SetDescriberAndLeader(p) ==
    /\ calls[p].pc = "setDescriber"
    /\ LET c == calls[p]
       IN  IF ~Match(c.roomId, c.teamId)
           THEN /\ Complete(p, "defineDescriberAndLeader", c.roomId, c.teamId,
                            NoUser, "NotFound", <<>>)
                /\ UNCHANGED teams
           ELSE /\ \E v \in Stored(teams[c.teamId].describer, c.nextDescriber),
                      w \in Stored(teams[c.teamId].teamLeader, c.nextLeader) :
                      teams' = [teams EXCEPT ![c.teamId].describer = v,
                                             ![c.teamId].teamLeader = w]
                /\ calls' = [calls EXCEPT ![p].pc = "setTeamLeader"]
                /\ last' = last
    /\ UNCHANGED << rooms, boot, ncalls, seen, rot, rooms0 >>

\* setDescriber, lines 172-190; then line 169 issues setTeamLeader
SetDescriber(p) ==
    /\ calls[p].pc = "setDescriber"
    /\ LET c == calls[p]
       IN  IF ~Match(c.roomId, c.teamId)
           THEN /\ Complete(p, "defineDescriberAndLeader", c.roomId, c.teamId,
                            NoUser, "NotFound", <<>>)
                /\ UNCHANGED teams
           ELSE /\ \E v \in Stored(teams[c.teamId].describer, c.nextDescriber) :
                      teams' = [teams EXCEPT ![c.teamId].describer = v]
                /\ calls' = [calls EXCEPT ![p].pc = "setTeamLeader"]
                /\ last' = last
    /\ UNCHANGED << rooms, boot, ncalls, seen, rot, rooms0 >>

\* setTeamLeader, lines 192-210; its result is what line 169 returns
SetTeamLeader(p) ==
    /\ calls[p].pc = "setTeamLeader"
    /\ LET c == calls[p]
       IN  IF ~Match(c.roomId, c.teamId)
           THEN /\ Complete(p, "defineDescriberAndLeader", c.roomId, c.teamId,
                            NoUser, "NotFound", <<>>)
                /\ UNCHANGED << teams, rot >>
           ELSE /\ \E v \in Stored(teams[c.teamId].teamLeader, c.nextLeader) :
                      teams' = [teams EXCEPT ![c.teamId].teamLeader = v]
                /\ rot' = [rot EXCEPT ![c.teamId] =
                              RotAfterRotation(teams'[c.teamId], @)]
                /\ Complete(p, "defineDescriberAndLeader", c.roomId, c.teamId,
                            NoUser, "ok", << teams'[c.teamId] >>)
    /\ UNCHANGED << rooms, boot, ncalls, seen, rooms0 >>

(* ---------------- TeamsService: lookups -------------------------------- *)
\* findTeamById, lines 40-42: the document, or null
FindTeamById(p, teamId) ==
    /\ Start(p)
    /\ ncalls' = ncalls + 1
    /\ seen' = seen
    /\ IF teamId \in DOMAIN teams
       THEN Complete(p, "findTeamById", NoId, teamId, NoUser, "ok",
                     << teams[teamId] >>)
       ELSE Complete(p, "findTeamById", NoId, teamId, NoUser, "null", <<>>)
    /\ UNCHANGED << rooms, teams, boot, rot, rooms0 >>

\* findAll, lines 90-92: the documents whose roomId is the given one
FindAll(p, roomId) ==
    /\ Start(p)
    /\ ncalls' = ncalls + 1
    /\ seen' = seen
    /\ LET ids == Sorted({t \in DOMAIN teams : teams[t].roomId = roomId})
       IN  Complete(p, "findAll", roomId, NoId, NoUser, "ok",
                    [k \in 1..Len(ids) |-> teams[ids[k]]])
    /\ UNCHANGED << rooms, teams, boot, rot, rooms0 >>

\* findOne, lines 94-100
FindOne(p, roomId, teamId) ==
    /\ Start(p)
    /\ ncalls' = ncalls + 1
    /\ seen' = seen
    /\ IF Match(roomId, teamId)
       THEN Complete(p, "findOne", roomId, teamId, NoUser, "ok",
                     << teams[teamId] >>)
       ELSE Complete(p, "findOne", roomId, teamId, NoUser, "NotFound", <<>>)
    /\ UNCHANGED << rooms, teams, boot, rot, rooms0 >>

(* ---------------- specifications --------------------------------------- *)
\* start-up (onModuleInit)
Bootstrap ==
    \/ BootDeleteAll
    \/ BootFindAll
    \/ BootCreateRoom
    \/ BootCreateTeam
    \/ BootUpdateTeam

\* the store answers the query a call in flight is waiting for
Resume ==
    \/ \E p \in Procs : AddPlayerUpdate(p)
    \/ \E p \in Procs : SetDescriber(p)
    \/ \E p \in Procs : SetTeamLeader(p)

\* calls interleave at their awaits
Next ==
    \/ Bootstrap
    \/ Resume
    \/ \E p \in Procs, u \in Users, t \in TeamArgs :
          ncalls < MaxCalls /\ InOrder(u) /\ AddPlayerFind(p, u, t)
    \/ \E p \in Procs, r \in RoomArgs, t \in TeamArgs, u \in Users :
          ncalls < MaxCalls /\ InOrder(u) /\ RemovePlayer(p, r, t, u)
    \/ \E p \in Procs, r \in RoomArgs, t \in TeamArgs :
          ncalls < MaxCalls /\ DefineFind(p, r, t)
    \/ \E p \in Procs, t \in TeamArgs :
          ncalls < MaxCalls /\ FindTeamById(p, t)
    \/ \E p \in Procs, r \in RoomArgs :
          ncalls < MaxCalls /\ FindAll(p, r)
    \/ \E p \in Procs, r \in RoomArgs, t \in TeamArgs :
          ncalls < MaxCalls /\ FindOne(p, r, t)

Spec == Init /\ [][Next]_vars

\* one call at a time: a call starts only when none is in flight
SeqStart == ncalls < MaxSeqCalls /\ AllIdle

\* the same for the changing calls of SpecReader
ReaderStart == ncalls < MaxReaderCalls /\ AllIdle

NextSeq ==
    \/ Bootstrap
    \/ Resume
    \/ \E p \in Procs, u \in Users, t \in TeamArgs :
          SeqStart /\ InOrder(u) /\ AddPlayerFind(p, u, t)
    \/ \E p \in Procs, r \in RoomArgs, t \in TeamArgs, u \in Users :
          SeqStart /\ InOrder(u) /\ RemovePlayer(p, r, t, u)
    \/ \E p \in Procs, r \in RoomArgs, t \in TeamArgs :
          SeqStart /\ DefineFind(p, r, t)
    \/ \E p \in Procs, t \in TeamArgs :
          SeqStart /\ FindTeamById(p, t)
    \/ \E p \in Procs, r \in RoomArgs :
          SeqStart /\ FindAll(p, r)
    \/ \E p \in Procs, r \in RoomArgs, t \in TeamArgs :
          SeqStart /\ FindOne(p, r, t)

SpecSeq == Init /\ [][NextSeq]_vars

\* the calls that change the store, one at a time, with a reader (findOne)
\* that may run while one of them is in flight
NextReader ==
    \/ Bootstrap
    \/ Resume
    \/ \E p \in Procs, u \in Users, t \in TeamArgs :
          ReaderStart /\ InOrder(u) /\ AddPlayerFind(p, u, t)
    \/ \E p \in Procs, r \in RoomArgs, t \in TeamArgs, u \in Users :
          ReaderStart /\ InOrder(u) /\ RemovePlayer(p, r, t, u)
    \/ \E p \in Procs, r \in RoomArgs, t \in TeamArgs :
          ReaderStart /\ DefineFind(p, r, t)
    \/ \E p \in Procs, r \in RoomArgs, t \in TeamArgs :
          ReaderStart /\ Remove(p, r, t)
    \/ \E p \in Procs, r \in RoomArgs, t \in TeamArgs :
          ncalls < MaxReaderCalls /\ FindOne(p, r, t)

SpecReader == Init /\ [][NextReader]_vars

\* start-up alone, on a store that may hold rooms of a previous run
NextBoot == Bootstrap

SpecBoot == InitAny /\ [][NextBoot]_vars

\* membership calls only (addPlayerToTeam, removePlayer), interleaved, on two
\* teams of the same room
NextMembers ==
    \/ Bootstrap
    \/ \E p \in Procs : AddPlayerUpdate(p)
    \/ \E p \in Procs, u \in Users, t \in MemberTeamArgs :
          ncalls < MaxMemberCalls /\ InOrder(u) /\ AddPlayerFind(p, u, t)
    \/ \E p \in Procs, r \in RoomArgs, t \in MemberTeamArgs, u \in Users :
          ncalls < MaxMemberCalls /\ InOrder(u) /\ RemovePlayer(p, r, t, u)

SpecMembers == Init /\ [][NextMembers]_vars

(* ======================= properties =================================== *)
\* the players of a team as a set
PlayerSet(doc) == { doc.players[k] : k \in 1..Len(doc.players) }

\* this step starts a call of op that returns or throws in the same step;
\* last' holds its arguments and outcome
ReturnsAtOnce(op) ==
    ncalls' = ncalls + 1 /\ calls' = calls /\ last'.op = op

\* this step starts addPlayerToTeam on team t in slot p and the call passes
\* its checks (the update is issued)
AddProceeds(p, t) ==
    /\ calls[p].pc = "idle"
    /\ calls'[p].pc = "addUpdate"
    /\ calls'[p].teamId = t

\* this step is the update of an addPlayerToTeam in slot p, which returns
AddReturns(p) == calls[p].pc = "addUpdate" /\ calls'[p].pc = "idle"

(* C1: on a team of n >= 1 players whose list does not change, starting    *)
(* from an unset describer, after the k-th call of defineDescriberAndLeader *)
(* in a row (calls run one at a time) describer = players[(k-1) mod n] and *)
(* teamLeader = players[k mod n].                                          *)
C1_RotationCyclic ==
    \A t \in DOMAIN teams :
        LET n == Len(teams[t].players)
            k == rot[t]
        IN  (AllIdle /\ n >= 1 /\ k >= 1) =>
                /\ teams[t].describer = At(teams[t].players, (k - 1) % n)
                /\ teams[t].teamLeader = At(teams[t].players, k % n)

\* a team of three players after its fourth rotation in a row: the describer
\* has wrapped round to the first player
C1_Witness ==
    \E t \in DOMAIN teams :
        /\ AllIdle
        /\ Len(teams[t].players) = 3
        /\ rot[t] = 4
        /\ last.op = "defineDescriberAndLeader"
        /\ last.result = "ok"
        /\ teams[t].describer = teams[t].players[1]
        /\ teams[t].teamLeader = teams[t].players[2]

(* C2: addPlayerToTeam on a team that holds exactly 3 players fails with   *)
(* the team-full error whatever the player (member or not) and whatever    *)
(* the describer and leader, and changes no team.                          *)
C2_FullTeamRejects ==
    [][\A t \in DOMAIN teams :
          Len(teams[t].players) = 3 =>
              /\ \A p \in Procs : ~AddProceeds(p, t)
              /\ (ReturnsAtOnce("addPlayerToTeam") /\ last'.teamId = t) =>
                     (last'.result = "TeamFull" /\ teams' = teams)]_vars

\* a non-member was refused on a full team whose roles are set
C2_Witness ==
    /\ last.op = "addPlayerToTeam"
    /\ last.result = "TeamFull"
    /\ last.teamId \in DOMAIN teams
    /\ Len(teams[last.teamId].players) = 3
    /\ last.userId \notin PlayerSet(teams[last.teamId])
    /\ teams[last.teamId].describer # NoUser
    /\ teams[last.teamId].teamLeader # NoUser

(* C3 as stated: addPlayerToTeam with a player already in the list fails   *)
(* with the duplicate-member error at every team size 1..3 and changes no  *)
(* team.                                                                   *)
C3_DuplicateAtEverySize ==
    [][\A t \in DOMAIN teams :
          /\ \A p \in Procs :
                ~(AddProceeds(p, t) /\ calls'[p].userId \in PlayerSet(teams[t]))
          /\ (/\ ReturnsAtOnce("addPlayerToTeam")
              /\ last'.teamId = t
              /\ last'.userId \in PlayerSet(teams[t])) =>
                 (last'.result = "Duplicate" /\ teams' = teams)]_vars

(* C3 amended: addPlayerToTeam with a player already in the list always    *)
(* fails and changes no team; the error is the duplicate-member error at   *)
(* team sizes 1 and 2, and the team-full error at the full size 3.         *)
C3_DuplicateBelowCapacity ==
    [][\A t \in DOMAIN teams :
          /\ \A p \in Procs :
                ~(AddProceeds(p, t) /\ calls'[p].userId \in PlayerSet(teams[t]))
          /\ (/\ ReturnsAtOnce("addPlayerToTeam")
              /\ last'.teamId = t
              /\ last'.userId \in PlayerSet(teams[t])) =>
                 /\ teams' = teams
                 /\ last'.result = IF Len(teams[t].players) < 3
                                   THEN "Duplicate" ELSE "TeamFull"]_vars

\* a member other than the first player was refused as a duplicate on a team
\* of two
C3_Witness ==
    /\ last.op = "addPlayerToTeam"
    /\ last.result = "Duplicate"
    /\ last.teamId \in DOMAIN teams
    /\ Len(teams[last.teamId].players) = 2
    /\ teams[last.teamId].players[2] = last.userId

(* C4: with calls run one at a time, addPlayerToTeam(p, t) on a team of    *)
(* fewer than 3 players that does not contain p succeeds; the stored list  *)
(* becomes the old list with p appended, nothing else in any team changes, *)
(* and the confirmation carries t's room id and team id.                   *)
C4_AddAppends ==
    [][/\ \A t \in DOMAIN teams :
             ~(/\ ReturnsAtOnce("addPlayerToTeam")
               /\ last'.teamId = t
               /\ Len(teams[t].players) < 3
               /\ last'.userId \notin PlayerSet(teams[t]))
       /\ \A p \in Procs :
             AddReturns(p) =>
                LET t == calls[p].teamId
                    u == calls[p].userId
                IN  /\ last'.op = "addPlayerToTeam"
                    /\ last'.result = "ok"
                    /\ last'.userId = u
                    /\ teams' = [teams EXCEPT
                                    ![t].players = Append(teams[t].players, u)]
                    /\ last'.ret = << [roomId |-> teams[t].roomId,
                                       teamId |-> t] >>]_vars

\* a third player was appended to a team whose roles were already set
C4_Witness ==
    /\ last.op = "addPlayerToTeam"
    /\ last.result = "ok"
    /\ AllIdle
    /\ Len(teams[last.teamId].players) = 3
    /\ teams[last.teamId].players[3] = last.userId
    /\ teams[last.teamId].describer # NoUser
    /\ last.ret[1].teamId = last.teamId
    /\ last.ret[1].roomId = teams[last.teamId].roomId

(* C5: removePlayer(room, team, x) on a team of that room returns the team *)
(* without error; if x is not a player nothing changes; if x is a player   *)
(* the list loses exactly x and the others keep their order.  Describer    *)
(* and leader are not touched.                                             *)
C5_RemovePlayer ==
    [][(ReturnsAtOnce("removePlayer") /\ Match(last'.roomId, last'.teamId)) =>
          LET t == last'.teamId
              x == last'.userId
              old == teams[t].players
              new == teams'[t].players
          IN  /\ last'.result = "ok"
              /\ last'.ret = << teams'[t] >>
              /\ teams' = [teams EXCEPT ![t].players = new]
              /\ IF x \notin PlayerSet(teams[t])
                 THEN new = old
                 ELSE /\ Len(new) = Len(old) - 1
                      /\ x \notin PlayerSet(teams'[t])
                      /\ \E i \in 1..Len(old) :
                            /\ old[i] = x
                            /\ new = SubSeq(old, 1, i - 1)
                                        \o SubSeq(old, i + 1, Len(old))]_vars

\* the describer chosen by a rotation has been removed from a team that
\* still has players
C5_Witness ==
    /\ last.op = "removePlayer"
    /\ last.result = "ok"
    /\ Len(teams[last.teamId].players) >= 1
    /\ teams[last.teamId].describer = last.userId
    /\ last.userId \notin PlayerSet(teams[last.teamId])
    /\ last.ret[1].players = teams[last.teamId].players

(* C6 as stated: in every reachable state, a team's describer and          *)
(* teamLeader, when both set, are two distinct players of the team's       *)
(* current player list.                                                    *)
C6_RolesDistinctMembers ==
    \A t \in DOMAIN teams :
        (teams[t].describer # NoUser /\ teams[t].teamLeader # NoUser) =>
            /\ teams[t].describer # teams[t].teamLeader
            /\ teams[t].describer \in PlayerSet(teams[t])
            /\ teams[t].teamLeader \in PlayerSet(teams[t])

(* C7: in every reachable state, under any interleaving of the calls, no   *)
(* team's stored player list holds more than 3 players.                    *)
C7_CapacityBound ==
    \A t \in DOMAIN teams : Len(teams[t].players) <= 3

\* a second addPlayerToTeam that passed the capacity check on a team of two
\* is about to write, after a concurrent one has already filled the team
C7_Witness ==
    \E p \in Procs :
        /\ calls[p].pc = "addUpdate"
        /\ Len(calls[p].players) = 3
        /\ Len(teams[calls[p].teamId].players) = 3
        /\ calls[p].userId \notin PlayerSet(teams[calls[p].teamId])

(* C8: once createDefaultRooms has completed on an empty store there are   *)
(* exactly the rooms Room1 and Room2 (turn time 60), each with exactly the *)
(* teams Team1, Team2, Team3 whose roomId is that room; a room's team-id   *)
(* list is the ids of its own teams in creation order, no team id is in    *)
(* two rooms, and before any client call every team has no players and     *)
(* unset describer and leader.                                             *)
C8_Bootstrap ==
    boot.pc = "done" =>
        /\ Cardinality(DOMAIN rooms) = 2
        /\ { rooms[r].name : r \in DOMAIN rooms } = {"Room1", "Room2"}
        /\ Cardinality(DOMAIN teams) = 6
        /\ \A r \in DOMAIN rooms :
              LET own == { t \in DOMAIN teams : teams[t].roomId = r }
              IN  /\ rooms[r].turnTime = 60
                  /\ Cardinality(own) = 3
                  /\ rooms[r].teams = Sorted(own)
                  /\ [k \in 1..3 |-> teams[rooms[r].teams[k]].name]
                        = << "Team1", "Team2", "Team3" >>
        /\ \A r1, r2 \in DOMAIN rooms :
              r1 # r2 =>
                 \A k1 \in 1..Len(rooms[r1].teams), k2 \in 1..Len(rooms[r2].teams) :
                    rooms[r1].teams[k1] # rooms[r2].teams[k2]
        /\ ncalls = 0 =>
              \A t \in DOMAIN teams :
                 /\ teams[t].players = <<>>
                 /\ teams[t].describer = NoUser
                 /\ teams[t].teamLeader = NoUser

\* start-up has just completed: both rooms hold their three team ids
C8_Witness ==
    /\ boot.pc = "done"
    /\ ncalls = 0
    /\ DOMAIN rooms = {1, 2}
    /\ rooms[1].teams = << 1, 2, 3 >>
    /\ rooms[2].teams = << 4, 5, 6 >>

(* C9 as stated: every team lookup whose identifiers do not resolve raises *)
(* not-found: findTeamById with the id of no team, findOne with a team id  *)
(* not in the given room, findAll with a room id no team belongs to.       *)
C9_LookupsRaiseNotFound ==
    /\ (last.op = "findTeamById" /\ last.teamId \notin DOMAIN teams) =>
           last.result = "NotFound"
    /\ (last.op = "findOne" /\ ~Match(last.roomId, last.teamId)) =>
           last.result = "NotFound"
    /\ (last.op = "findAll"
          /\ ~\E t \in DOMAIN teams : teams[t].roomId = last.roomId) =>
           last.result = "NotFound"

(* C10 as stated: in every reachable state a player is in the player list  *)
(* of at most one team of any given room.                                  *)
C10_OneTeamPerRoom ==
    \A t1, t2 \in DOMAIN teams :
        (t1 # t2 /\ teams[t1].roomId = teams[t2].roomId) =>
            PlayerSet(teams[t1]) \cap PlayerSet(teams[t2]) = {}

\* this step is the first write of a rotation in slot p (setDescriber)
DescriberWrite(p) ==
    calls[p].pc = "setDescriber" /\ calls'[p].pc = "setTeamLeader"

\* this step is the second write of a rotation in slot p (setTeamLeader),
\* after which the call returns
LeaderWrite(p) ==
    /\ calls[p].pc = "setTeamLeader"
    /\ calls'[p].pc = "idle"
    /\ last'.result = "ok"

(* C11: defineDescriberAndLeader stores the new describer and the new      *)
(* leader by two separate writes, the describer first: the first write     *)
(* changes the describer only (to the next player in order) and leaves the *)
(* leader at its previous value, the second changes the leader only; on a  *)
(* team of two or more players that has been rotated before, the state     *)
(* between the two writes has describer = teamLeader.  (Changing calls run *)
(* one at a time; a reader may run between the two writes.)                *)
C11_TwoWrites ==
    [][\A p \in Procs :
          LET t == calls[p].teamId
              n == Len(teams[t].players)
              k == rot[t]
          IN  /\ DescriberWrite(p) =>
                    /\ teams' = [teams EXCEPT
                                    ![t].describer = teams'[t].describer]
                    /\ (n >= 1 /\ k >= 0) =>
                           teams'[t].describer = At(teams[t].players, k % n)
                    /\ (n >= 2 /\ k >= 1) =>
                           teams'[t].describer = teams'[t].teamLeader
              /\ LeaderWrite(p) =>
                    /\ teams' = [teams EXCEPT
                                    ![t].teamLeader = teams'[t].teamLeader]
                    /\ (n >= 1 /\ k >= 0) =>
                           teams'[t].teamLeader =
                               At(teams[t].players, (k + 1) % n)]_vars

\* a reader (findOne) ran between the two writes of the second rotation of a
\* team of two or more players and was handed describer = teamLeader
C11_Witness ==
    \E p \in Procs :
        /\ calls[p].pc = "setTeamLeader"
        /\ last.op = "findOne"
        /\ last.result = "ok"
        /\ last.teamId = calls[p].teamId
        /\ last.ret = << teams[last.teamId] >>
        /\ rot[last.teamId] >= 1
        /\ Len(last.ret[1].players) >= 2
        /\ last.ret[1].describer # NoUser
        /\ last.ret[1].describer = last.ret[1].teamLeader

\* the addPlayerToTeam in slot p read its team when it held two players and
\* is about to write, and another addPlayerToTeam that read the same two
\* players has written its own new player in the meantime
SecondOfTwoAdds(p) ==
    LET c == calls[p]
        stored == teams[c.teamId].players
    IN  /\ c.pc = "addUpdate"
        /\ Len(c.players) = 3
        /\ Len(stored) = 3
        /\ SubSeq(c.players, 1, 2) = SubSeq(stored, 1, 2)
        /\ c.userId # stored[3]

(* C12 as stated: when two addPlayerToTeam calls with distinct new players *)
(* both read a team of 2 players before either writes, both pass the       *)
(* capacity check and, once both have completed, the stored player list    *)
(* holds more than 3 players.                                              *)
C12_JointOverfill ==
    [][\A p \in Procs :
          (SecondOfTwoAdds(p) /\ AddReturns(p)) =>
              Len(teams'[calls[p].teamId].players) > 3]_vars

(* C12 amended: when two addPlayerToTeam calls with distinct new players   *)
(* both read a team of 2 players before either writes, both pass the       *)
(* capacity check and both return success, but the later write replaces    *)
(* the whole list: once both have completed the stored list holds exactly  *)
(* 3 players, the two that were there and the later writer's, and the      *)
(* earlier writer's player is gone.                                        *)
C12_LaterWriteWins ==
    [][\A p \in Procs :
          (SecondOfTwoAdds(p) /\ AddReturns(p)) =>
              LET t == calls[p].teamId
              IN  /\ last'.op = "addPlayerToTeam"
                  /\ last'.result = "ok"
                  /\ teams'[t].players = calls[p].players
                  /\ Len(teams'[t].players) = 3
                  /\ teams[t].players[3] \notin PlayerSet(teams'[t])]_vars

\* both calls passed the capacity check on the team of two; the first has
\* returned success for its player, the second is about to write its list
C12_Witness ==
    \E p \in Procs :
        /\ SecondOfTwoAdds(p)
        /\ last.op = "addPlayerToTeam"
        /\ last.result = "ok"
        /\ last.teamId = calls[p].teamId
        /\ last.userId = teams[calls[p].teamId].players[3]

(* C13 as stated: for k defineDescriberAndLeader calls on the same team (n *)
(* >= 1 players, list unchanged, describer initially unset), in any        *)
(* interleaving of their reads and writes, once all k calls have completed *)
(* the describer is players[(k-1) mod n] and the team leader is            *)
(* players[k mod n].                                                       *)
C13_AdvancesOnePerCall ==
    \A t \in DOMAIN teams :
        LET n == Len(teams[t].players)
            k == rot[t]
        IN  (~RotationInFlight(t) /\ n >= 1 /\ k >= 1) =>
                /\ teams[t].describer = At(teams[t].players, (k - 1) % n)
                /\ teams[t].teamLeader = At(teams[t].players, k % n)

\* this step starts defineDescriberAndLeader in slot p, and the call passes
\* its team lookup and goes on to its writes
DefineProceeds(p) ==
    calls[p].pc = "idle" /\ calls'[p].pc = "setDescriber"

(* C14 as stated: defineDescriberAndLeader called on an existing team      *)
(* whose player list is empty raises an error: it does not go on to its    *)
(* writes, and describer and teamLeader are not written.                   *)
C14_EmptyTeamRejected ==
    [][\A p \in Procs :
          DefineProceeds(p) =>
              Len(teams[calls'[p].teamId].players) >= 1]_vars

\* this step is the per-room existence check of createDefaultRooms
ExistenceCheck == boot.pc = "findAll" /\ boot'.pc # "findAll"

(* C15: whatever rooms the store held when the process started, the        *)
(* existence check made after deleteAllRooms finds no match and the create *)
(* branch is taken, for both default rooms; and once createDefaultRooms    *)
(* has completed, none of the rooms held before is left and the room       *)
(* directory holds exactly one Room1 and one Room2.                        *)
C15_AlwaysCreatesDefaultRooms ==
    [][/\ ExistenceCheck =>
             /\ ~\E r \in DOMAIN rooms :
                    rooms[r].name = initialRooms[boot.i].name
             /\ boot'.pc = "createRoom"
       /\ boot'.pc = "done" =>
             /\ \A r \in DOMAIN rooms0 :
                    r \notin DOMAIN rooms' \/ rooms'[r] # rooms0[r]
             /\ \A i \in 1..Len(initialRooms) :
                    Cardinality({ r \in DOMAIN rooms' :
                        rooms'[r].name = initialRooms[i].name }) = 1
             /\ Cardinality(DOMAIN rooms') = Len(initialRooms)]_vars

\* start-up has completed on a store that held a Room1 and a Lobby: both are
\* gone and there is one Room1 and one Room2, each with its three teams
C15_Witness ==
    /\ boot.pc = "done"
    /\ { rooms0[r].name : r \in DOMAIN rooms0 } = {"Room1", "Lobby"}
    /\ DOMAIN rooms \cap DOMAIN rooms0 = {}
    /\ { rooms[r].name : r \in DOMAIN rooms } = {"Room1", "Room2"}
    /\ \A r \in DOMAIN rooms : Len(rooms[r].teams) = 3

\* a team with the id teamId is stored and belongs to the room roomId
InRoom(roomId, teamId) ==
    \E t \in DOMAIN teams : t = teamId /\ teams[t].roomId = roomId

(* C16: removePlayer, defineDescriberAndLeader and remove, called with a   *)
(* (roomId, teamId) such that no team has both that id and that roomId     *)
(* (the id of no team, or the id of a team of another room), raise         *)
(* NotFound at once and leave the team collection as it was.               *)
C16_RoomScopedNotFound ==
    [][/\ \A op \in {"removePlayer", "defineDescriberAndLeader", "remove"} :
             (ReturnsAtOnce(op) /\ ~InRoom(last'.roomId, last'.teamId)) =>
                 (last'.result = "NotFound" /\ teams' = teams)
       /\ \A p \in Procs :
             DefineProceeds(p) => InRoom(calls'[p].roomId, calls'[p].teamId)]_vars

\* remove was called with the id of a team of room 1 and the id of room 2:
\* it raised NotFound and the team, which has players and roles, is there
C16_Witness ==
    /\ last.op = "remove"
    /\ last.result = "NotFound"
    /\ last.teamId \in DOMAIN teams
    /\ last.roomId \in DOMAIN rooms
    /\ teams[last.teamId].roomId # last.roomId
    /\ Len(teams[last.teamId].players) >= 1
    /\ teams[last.teamId].describer # NoUser

(* C17: in every reachable state, under any interleaving of the calls, no  *)
(* team's stored player list holds the same player twice (also when two    *)
(* addPlayerToTeam calls for the same player on the same team both pass    *)
(* the membership check).                                                  *)
C17_NoDuplicatePlayers ==
    \A t \in DOMAIN teams :
        \A i, j \in 1..Len(teams[t].players) :
            teams[t].players[i] = teams[t].players[j] => i = j

\* two addPlayerToTeam calls for the same player both passed the membership
\* check; the first has stored the player and returned, the second is about
\* to write
C17_Witness ==
    \E p \in Procs :
        /\ calls[p].pc = "addUpdate"
        /\ calls[p].userId \in PlayerSet(teams[calls[p].teamId])
        /\ Len(teams[calls[p].teamId].players) >= 2
        /\ last.op = "addPlayerToTeam"
        /\ last.result = "ok"
        /\ last.userId = calls[p].userId
        /\ last.teamId = calls[p].teamId

\* this step is a removePlayer of player x from team t that found the team
RemovesPlayer(t, x) ==
    /\ ReturnsAtOnce("removePlayer")
    /\ last'.result = "ok"
    /\ last'.teamId = t
    /\ last'.userId = x

\* this step is the write of an addPlayerToTeam of player x to team t
AddsPlayer(t, x) ==
    \E p \in Procs :
        AddReturns(p) /\ calls[p].teamId = t /\ calls[p].userId = x

(* C18 as stated: completed membership changes are durable under           *)
(* concurrency: a player in a team's stored list leaves it only by a       *)
(* removePlayer for that player, and a player not in the list enters it    *)
(* only by the write of an addPlayerToTeam for that player; no write of an *)
(* addPlayerToTeam drops another player or brings a removed one back.      *)
C18_MembershipDurable ==
    [][\A t \in DOMAIN teams, x \in Users :
          /\ (x \in PlayerSet(teams[t]) /\ x \notin PlayerSet(teams'[t])) =>
                 RemovesPlayer(t, x)
          /\ (x \notin PlayerSet(teams[t]) /\ x \in PlayerSet(teams'[t])) =>
                 AddsPlayer(t, x)]_vars

\* the stored describer of team t is set but is not in t's player list
StaleDescriber(t) ==
    /\ teams[t].describer # NoUser
    /\ teams[t].describer \notin PlayerSet(teams[t])

(* C19: a defineDescriberAndLeader that finds the stored describer set but *)
(* no longer in the player list of a team of n >= 1 players takes          *)
(* players[0] as the next describer and players[1 mod n] as the next       *)
(* leader, as for an unset describer; and a rotation of a team with        *)
(* players stores what it took, so that when it returns both roles are     *)
(* held by players of the list.  (Changing calls run one at a time.)       *)
C19_StaleDescriberRestarts ==
    [][\A p \in Procs :
          /\ DefineProceeds(p) =>
                LET t == calls'[p].teamId
                    n == Len(teams[t].players)
                IN  (StaleDescriber(t) /\ n >= 1) =>
                        /\ calls'[p].nextDescriber = teams[t].players[1]
                        /\ calls'[p].nextLeader =
                               teams[t].players[(1 % n) + 1]
          /\ LeaderWrite(p) =>
                LET t == calls[p].teamId
                IN  Len(teams[t].players) >= 1 =>
                        /\ teams'[t].describer = calls[p].nextDescriber
                        /\ teams'[t].teamLeader = calls[p].nextLeader
                        /\ teams'[t].describer \in PlayerSet(teams'[t])
                        /\ teams'[t].teamLeader \in PlayerSet(teams'[t])]_vars

\* a rotation has read a team of two players whose stored describer was
\* removed: it is about to store the first player as describer and the
\* second as leader
C19_Witness ==
    \E p \in Procs :
        LET t == calls[p].teamId
        IN  /\ calls[p].pc = "setDescriber"
            /\ StaleDescriber(t)
            /\ Len(teams[t].players) = 2
            /\ calls[p].nextDescriber = teams[t].players[1]
            /\ calls[p].nextLeader = teams[t].players[2]
            /\ last.op = "removePlayer"
            /\ last.userId = teams[t].describer
====
